---- MODULE Spec2Model ----
(***************************************************************************)
(* Model of gam300::GameManager (Manager/GameManager.cpp): ordered start   *)
(* of the LogManager, InputManager, ECSManager and SerialisationManager    *)
(* singletons with hand-written rollback, the per-frame update and the     *)
(* shutdown.  Every public operation is one action; the calls an operation *)
(* makes on its collaborators are recorded, in program order, in `calls`.  *)
(***************************************************************************)
EXTENDS Integers, Sequences, FiniteSets, TLC

\* ------------------------------------------------------------------ bounds
MaxSteps == 201          \* cap on m_step_count explored by the model
DtValues == {0, 16}      \* frame times handed to update(dt)
MaxTime == 8             \* last reading of the time source explored
MaxStart == 1            \* latest reading at which the Clock is constructed
MaxSplits == 2           \* split() calls explored between two delta() calls

\* --------------------------------------------------------------- constants
HEARTBEAT_PERIOD == 100
SET_GAME_OVER_DEFAULT == TRUE
ScenePath == "Scene/Game.scn"

Subsys == {"LM", "IM", "EM", "SEM"}

VARIABLES
    m_game_over,     \* GameManager::m_game_over
    m_step_count,    \* GameManager::m_step_count
    m_is_started,    \* Manager::m_is_started of the GameManager itself
    sub,             \* started status of each subsystem singleton
    calls,           \* calls made on collaborators by the last operation
    lastOp,          \* name of the last operation of the driver
    lastRet,         \* value it returned (0 for the void operations)
    lastIn,          \* outcomes the collaborators gave during it
    pre,             \* m_step_count and m_game_over right before it
    startUpCalled,   \* history: startUp has been called at least once
    nUpdates,        \* history: updates since the last successful startUp
                     \* with nothing else in between and no key press (-1: none)
    keyTerminated,   \* history: escape was seen by update, no successful
                     \* startUp and no direct setGameOver call since
    afterShutDown,   \* history: the operation before the last was a shutDown
    noChange,        \* history: the last operation left every field of the
                     \* GameManager and every subsystem's status as it was
    runShape,        \* history: how far the run follows the driver's pattern
                     \* startUp, updates, shutDown ("off": it does not)
    now,             \* current reading of the monotonic time source (us)
    m_previous_time, \* Clock::m_previous_time
    clockOp,         \* last operation on the Clock
    clockAt,         \* reading of the time source during it
    clockOk,         \* the time source could be read in it
    clockRet,        \* value it returned
    ref,             \* history: reading at construction or at the last
                     \* delta() that could read the time source
    refBefore,       \* history: ref right before the last Clock operation
    constructedAt,   \* history: reading at which the Clock was constructed
    sumDelta,        \* history: sum of the results of all successful delta()
    splits,          \* history: split() calls since the last delta()
    splitsSeen       \* history: split() calls between the last two delta()

gmVars == <<m_game_over, m_step_count, m_is_started, sub, calls, lastOp,
            lastRet, lastIn, pre, startUpCalled, nUpdates, keyTerminated,
            afterShutDown, noChange, runShape>>

clockVars == <<now, m_previous_time, clockOp, clockAt, clockOk, clockRet, ref,
               refBefore, constructedAt, sumDelta, splits, splitsSeen>>

vars == <<gmVars, clockVars>>

\* ------------------------------------------------------------------ inputs
\* Outcome of every collaborator call one operation can make (TRUE = success,
\* for key: isKeyJustPressed(GLFW_KEY_ESCAPE); over: argument of setGameOver).
DefaultIn ==
    [mgr |-> TRUE, LM |-> TRUE, IM |-> TRUE, EM |-> TRUE, SEM |-> TRUE,
     reg |-> TRUE, load1 |-> TRUE, save |-> TRUE, load2 |-> TRUE,
     key |-> FALSE, dt |-> 0, over |-> FALSE]

\* startUp reads the outcomes one after the other and stops at the first failed
\* mandatory step; outcomes it never reads are fixed to TRUE.
StartInputs ==
    { [DefaultIn EXCEPT !.mgr = v[1], !.LM = v[2], !.IM = v[3], !.EM = v[4],
                        !.SEM = v[5], !.reg = v[6], !.load1 = v[7],
                        !.save = v[8], !.load2 = v[9]] :
        v \in { u \in [1..9 -> BOOLEAN] :
                  /\ \A i \in 1..5 : ~u[i] => \A j \in (i+1)..9 : u[j]
                  /\ u[7] => (u[8] /\ u[9]) } }

\* ------------------------------------------------------- collaborator calls
\* The state an operation works on: the fields it can change, the calls made
\* so far and the return value.
World ==
    [game_over |-> m_game_over, step_count |-> m_step_count,
     is_started |-> m_is_started, sub |-> sub, calls |-> <<>>, ret |-> 0]

\* One recorded call, with the game-over flag and the sink's status it saw.
Call(w, obj, fn, arg) ==
    [w EXCEPT !.calls = Append(@, [obj |-> obj, fn |-> fn, arg |-> arg,
                                   over |-> w.game_over,
                                   sink |-> w.sub["LM"]])]

\* Manager::startUp of the GameManager's base class.
ManagerStartUp(w, ok) ==
    LET w1 == Call(w, "Manager", "startUp", "")
    IN  IF ok THEN [w1 EXCEPT !.is_started = TRUE] ELSE w1

\* Manager::shutDown of the GameManager's base class.
ManagerShutDown(w) ==
    [Call(w, "Manager", "shutDown", "") EXCEPT !.is_started = FALSE]

\* startUp of one subsystem singleton.
SubStartUp(w, s, ok) ==
    LET w1 == Call(w, s, "startUp", "")
    IN  IF ok THEN [w1 EXCEPT !.sub[s] = TRUE] ELSE w1

\* shutDown of one subsystem singleton.
SubShutDown(w, s) ==
    [Call(w, s, "shutDown", "") EXCEPT !.sub[s] = FALSE]

\* LogManager::writeLog; its result is ignored by every caller.
WriteLog(w, msg) == Call(w, "LM", "writeLog", msg)

Return(w, r) == [w EXCEPT !.ret = r]

\* ------------------------------------------------- GameManager::setGameOver
\* Lines 163-171.
GM_setGameOver(w, new_game_over) ==
    LET w1 == [w EXCEPT !.game_over = new_game_over]
    IN  IF new_game_over THEN WriteLog(w1, "game over set") ELSE w1

\* ----------------------------------------------------- GameManager::startUp
\* Variant: the step count and the flag are left as they were.
FinishStartUp_NoReset(w) == Return(w, 0)

\* Lines 108-114: reset the step count, clear game over, return 0.
FinishStartUp(w) ==
    Return([w EXCEPT !.step_count = 0, !.game_over = FALSE], 0)

\* Variant: the default scene is saved and loaded again until a load succeeds
\* or a third load has failed.
LoadSceneStep_RetryAgain(w, in) ==
    LET w1 == Call(w, "SEM", "loadScene", ScenePath)
    IN  IF in.load1
        THEN WriteLog(w1, "scene loaded")
        ELSE LET w2 == WriteLog(w1, "failed to load scene")
                 w3 == Call(w2, "SEM", "saveScene", ScenePath)
                 w4 == Call(w3, "SEM", "loadScene", ScenePath)
             IN  IF in.load2
                 THEN WriteLog(w4, "default scene loaded")
                 ELSE WriteLog(
                        Call(Call(w4, "SEM", "saveScene", ScenePath),
                             "SEM", "loadScene", ScenePath),
                        "WARNING: failed to load default scene")

\* Lines 91-106: load the scene; on failure save a default scene to the same
\* path and load once more.
LoadSceneStep(w, in) ==
    LET w1 == Call(w, "SEM", "loadScene", ScenePath)
    IN  IF in.load1
        THEN WriteLog(w1, "scene loaded")
        ELSE LET w2 == WriteLog(w1, "failed to load scene")
                 w3 == Call(w2, "SEM", "saveScene", ScenePath)
                 w4 == Call(w3, "SEM", "loadScene", ScenePath)
             IN  IF in.load2
                 THEN WriteLog(w4, "default scene loaded")
                 ELSE WriteLog(w4, "WARNING: failed to load default scene")

\* Lines 82-89: register the InputSystem with the ECSManager.
RegisterInputSystem(w, in) ==
    LET w1 == Call(w, "EM", "registerSystem", "InputSystem")
    IN  IF ~in.reg
        THEN WriteLog(w1, "failed to register InputSystem")
        ELSE WriteLog(w1, "InputSystem registered")

\* Variant: the rollback runs in start order instead of reverse order.
FailSEM_StartOrder(w) ==
    LET w1 == WriteLog(w, "failed to start SerialisationManager")
        w2 == SubShutDown(w1, "LM")
        w3 == SubShutDown(w2, "IM")
        w4 == SubShutDown(w3, "EM")
    IN  Return(w4, -1)

\* Lines 73-77: the SerialisationManager failed to start.
FailSEM(w) ==
    LET w1 == WriteLog(w, "failed to start SerialisationManager")
        w2 == SubShutDown(w1, "EM")
        w3 == SubShutDown(w2, "IM")
        w4 == SubShutDown(w3, "LM")
    IN  Return(w4, -1)

\* Variant: the failure branch also clears the step count.
FailEM_ResetCount(w) ==
    LET w1 == WriteLog(w, "failed to start ECSManager")
        w2 == SubShutDown(w1, "IM")
        w3 == SubShutDown(w2, "LM")
    IN  Return([w3 EXCEPT !.step_count = 0], -1)

\* Lines 63-66: the ECSManager failed to start.
FailEM(w) ==
    LET w1 == WriteLog(w, "failed to start ECSManager")
        w2 == SubShutDown(w1, "IM")
        w3 == SubShutDown(w2, "LM")
    IN  Return(w3, -1)

\* Variant: the failure record is written after the LogManager is shut down.
FailIM_LogAfterClose(w) ==
    LET w1 == SubShutDown(w, "LM")
        w2 == WriteLog(w1, "failed to start InputManager")
    IN  Return(w2, -1)

\* Lines 54-56: the InputManager failed to start.
FailIM(w) ==
    LET w1 == WriteLog(w, "failed to start InputManager")
        w2 == SubShutDown(w1, "LM")
    IN  Return(w2, -1)

\* Variant: a failed retry of the scene load is treated as a fatal failure.
StartSEM_RetryFatal(w, in) ==
    LET w1 == SubStartUp(w, "SEM", in.SEM)
    IN  IF ~in.SEM
        THEN FailSEM(w1)
        ELSE LET w2 == LoadSceneStep(
                         RegisterInputSystem(
                           WriteLog(w1, "SerialisationManager started"), in), in)
             IN  IF ~in.load1 /\ ~in.load2
                 THEN FailSEM(SubShutDown(w2, "SEM"))
                 ELSE FinishStartUp(w2)

\* Lines 71-114: start the SerialisationManager, then the optional steps.
StartSEM(w, in) ==
    LET w1 == SubStartUp(w, "SEM", in.SEM)
    IN  IF ~in.SEM
        THEN FailSEM(w1)
        ELSE FinishStartUp(
               LoadSceneStep(
                 RegisterInputSystem(
                   WriteLog(w1, "SerialisationManager started"), in), in))

\* Variant: the result of EM.startUp() is not tested.
StartEM_IgnoreFailure(w, in) ==
    StartSEM(WriteLog(SubStartUp(w, "EM", in.EM), "ECSManager started"), in)

\* Lines 61-69: start the ECSManager.
StartEM(w, in) ==
    LET w1 == SubStartUp(w, "EM", in.EM)
    IN  IF ~in.EM
        THEN FailEM(w1)
        ELSE StartSEM(WriteLog(w1, "ECSManager started"), in)

\* Lines 52-59: start the InputManager.
StartIM(w, in) ==
    LET w1 == SubStartUp(w, "IM", in.IM)
    IN  IF ~in.IM
        THEN FailIM(w1)
        ELSE StartEM(WriteLog(w1, "InputManager started"), in)

\* Lines 43-50: start the LogManager.
StartLM(w, in) ==
    LET w1 == SubStartUp(w, "LM", in.LM)
    IN  IF ~in.LM
        THEN Return(w1, -1)
        ELSE StartIM(WriteLog(w1, "LogManager started"), in)

\* Lines 38-115.
GM_startUp(w, in) ==
    LET w1 == ManagerStartUp(w, in.mgr)
    IN  IF ~in.mgr
        THEN Return(w1, -1)
        ELSE StartLM(w1, in)

\* ---------------------------------------------------- GameManager::shutDown
\* Variant: game over is set after the subsystems have been shut down.
GM_shutDown_LateFlag(w) ==
    LET w1 == WriteLog(w, "shutting down GameManager")
        w3 == SubShutDown(w1, "SEM")
        w4 == SubShutDown(w3, "EM")
        w5 == SubShutDown(w4, "IM")
        w6 == SubShutDown(w5, "LM")
        w7 == GM_setGameOver(w6, SET_GAME_OVER_DEFAULT)
    IN  Return(ManagerShutDown(w7), 0)

\* Variant: shutDown does not touch the game-over flag.
GM_shutDown_NoFlag(w) ==
    LET w1 == WriteLog(w, "shutting down GameManager")
        w3 == SubShutDown(w1, "SEM")
        w4 == SubShutDown(w3, "EM")
        w5 == SubShutDown(w4, "IM")
        w6 == SubShutDown(w5, "LM")
    IN  Return(ManagerShutDown(w6), 0)

\* Variant: shutDown flips the game-over flag instead of setting it.
GM_shutDown_Toggle(w) ==
    LET w1 == WriteLog(w, "shutting down GameManager")
        w2 == GM_setGameOver(w1, ~w.game_over)
        w3 == SubShutDown(w2, "SEM")
        w4 == SubShutDown(w3, "EM")
        w5 == SubShutDown(w4, "IM")
        w6 == SubShutDown(w5, "LM")
    IN  Return(ManagerShutDown(w6), 0)

\* Lines 124-140.
GM_shutDown(w) ==
    LET w1 == WriteLog(w, "shutting down GameManager")
        w2 == GM_setGameOver(w1, SET_GAME_OVER_DEFAULT)
        w3 == SubShutDown(w2, "SEM")
        w4 == SubShutDown(w3, "EM")
        w5 == SubShutDown(w4, "IM")
        w6 == SubShutDown(w5, "LM")
    IN  Return(ManagerShutDown(w6), 0)

\* ------------------------------------------------------ GameManager::update
\* Variant: the counter advances by two.
StepIncrement_ByTwo(w) == [w EXCEPT !.step_count = @ + 2]

\* Line 145.
StepIncrement(w) == [w EXCEPT !.step_count = @ + 1]

\* Variant: the heartbeat is written one step late.
Heartbeat_OneLate(w) ==
    IF w.step_count % HEARTBEAT_PERIOD = 1
    THEN WriteLog(w, "step count")
    ELSE w

\* Lines 147-150.
Heartbeat(w) ==
    IF w.step_count % HEARTBEAT_PERIOD = 0
    THEN WriteLog(w, "step count")
    ELSE w

\* Variant: the key is polled but game over is not set.
CheckEscape_NoSet(w, key) ==
    LET w1 == Call(w, "IM", "isKeyJustPressed", "GLFW_KEY_ESCAPE")
    IN  IF key
        THEN WriteLog(w1, "escape pressed")
        ELSE w1

\* Lines 152-156.
CheckEscape(w, key) ==
    LET w1 == Call(w, "IM", "isKeyJustPressed", "GLFW_KEY_ESCAPE")
    IN  IF key
        THEN WriteLog(GM_setGameOver(w1, TRUE), "escape pressed")
        ELSE w1

\* Lines 158-159.
UpdateSystems(w, dt) == Call(w, "EM", "updateSystems", dt)

\* Variant: update returns as soon as it has seen the escape key.
GM_update_ReturnOnEscape(w, dt, key) ==
    LET w1 == CheckEscape(Heartbeat(StepIncrement(w)), key)
    IN  IF key THEN Return(w1, 0) ELSE Return(UpdateSystems(w1, dt), 0)

\* Lines 143-160.
GM_update(w, dt, key) ==
    Return(UpdateSystems(CheckEscape(Heartbeat(StepIncrement(w)), key), dt), 0)

\* ------------------------------------------------------------------- Clock
\* Clock::Clock: previous_time is set to the current time.
ClockConstruct(t) ==
    /\ now = t
    /\ m_previous_time = t
    /\ clockOp = "ctor"
    /\ clockAt = t
    /\ clockOk = TRUE
    /\ clockRet = 0
    /\ ref = t
    /\ refBefore = t
    /\ constructedAt = t
    /\ sumDelta = 0
    /\ splits = 0
    /\ splitsSeen = 0

\* Variant: delta() returns the elapsed time but keeps the old reference point.
Clock_delta_NoReset(previous_time, t, ok) ==
    IF ~ok
    THEN [ret |-> -1, previous_time |-> previous_time]
    ELSE [ret |-> t - previous_time, previous_time |-> previous_time]

\* Clock::delta: elapsed time since the reference point, -1 if the time source
\* cannot be read; the reference point becomes the current time.
Clock_delta(previous_time, t, ok) ==
    IF ~ok
    THEN [ret |-> -1, previous_time |-> previous_time]
    ELSE [ret |-> t - previous_time, previous_time |-> t]

\* Variant: split() resets the reference point as delta() does.
Clock_split_Reset(previous_time, t, ok) ==
    IF ~ok
    THEN [ret |-> -1, previous_time |-> previous_time]
    ELSE [ret |-> t - previous_time, previous_time |-> t]

\* Clock::split: as delta, but const: the reference point is not touched.
Clock_split(previous_time, t, ok) ==
    IF ~ok
    THEN [ret |-> -1, previous_time |-> previous_time]
    ELSE [ret |-> t - previous_time, previous_time |-> previous_time]

\* -------------------------------------------------------------- the driver
GameManagerConstruct ==
    /\ m_game_over = FALSE
    /\ m_step_count = 0
    /\ m_is_started = FALSE
    /\ sub = [s \in Subsys |-> FALSE]
    /\ calls = <<>>
    /\ lastOp = "ctor"
    /\ lastRet = 0
    /\ lastIn = DefaultIn
    /\ pre = [step_count |-> 0, game_over |-> FALSE]
    /\ startUpCalled = FALSE
    /\ nUpdates = -1
    /\ keyTerminated = FALSE
    /\ afterShutDown = FALSE
    /\ noChange = TRUE
    /\ runShape = "fresh"

Init ==
    /\ GameManagerConstruct
    /\ ClockConstruct(0)

\* The fields an operation leaves behind.
Commit(w, op, in) ==
    /\ m_game_over' = w.game_over
    /\ m_step_count' = w.step_count
    /\ m_is_started' = w.is_started
    /\ sub' = w.sub
    /\ calls' = w.calls
    /\ lastOp' = op
    /\ lastRet' = w.ret
    /\ lastIn' = in
    /\ pre' = [step_count |-> m_step_count, game_over |-> m_game_over]
    /\ afterShutDown' = (lastOp = "shutDown")
    /\ noChange' = /\ w.game_over = m_game_over
                   /\ w.step_count = m_step_count
                   /\ w.is_started = m_is_started
                   /\ w.sub = sub
    /\ UNCHANGED clockVars

StartUp ==
    \E in \in StartInputs :
        LET w == GM_startUp(World, in)
        IN  /\ Commit(w, "startUp", in)
            /\ startUpCalled' = TRUE
            /\ nUpdates' = IF w.ret = 0 THEN 0 ELSE -1
            /\ keyTerminated' = IF w.ret = 0 THEN FALSE ELSE keyTerminated
            /\ runShape' = IF runShape # "fresh" THEN "off"
                           ELSE IF w.ret = 0 THEN "running" ELSE "failed"

ShutDown ==
    /\ Commit(GM_shutDown(World), "shutDown", DefaultIn)
    /\ nUpdates' = -1
    /\ runShape' = IF runShape = "running" THEN "done" ELSE "off"
    /\ UNCHANGED <<startUpCalled, keyTerminated>>

Update ==
    /\ m_step_count < MaxSteps
    /\ \E dt \in DtValues, key \in BOOLEAN :
         /\ Commit(GM_update(World, dt, key), "update",
                   [DefaultIn EXCEPT !.dt = dt, !.key = key])
         /\ nUpdates' = IF nUpdates >= 0 /\ ~key THEN nUpdates + 1 ELSE -1
         /\ keyTerminated' = (keyTerminated \/ key)
    /\ runShape' = IF runShape = "running" THEN "running" ELSE "off"
    /\ UNCHANGED startUpCalled

SetGameOver ==
    /\ \E b \in BOOLEAN :
         Commit(Return(GM_setGameOver(World, b), 0), "setGameOver",
                [DefaultIn EXCEPT !.over = b])
    /\ nUpdates' = -1
    /\ keyTerminated' = FALSE
    /\ runShape' = "off"
    /\ UNCHANGED startUpCalled

Next == StartUp \/ ShutDown \/ Update \/ SetGameOver

Spec == Init /\ [][Next]_vars

\* ---------------------------------------------------- the Clock on its own
ClockInit ==
    /\ GameManagerConstruct
    /\ \E t \in 0..MaxStart : ClockConstruct(t)

\* The monotonic time source advances.
Tick ==
    /\ now < MaxTime
    /\ now' = now + 1
    /\ UNCHANGED <<m_previous_time, clockOp, clockAt, clockOk, clockRet, ref, refBefore,
                   constructedAt, sumDelta, splits, splitsSeen>>
    /\ UNCHANGED gmVars

Delta ==
    /\ \E ok \in BOOLEAN :
         LET r == Clock_delta(m_previous_time, now, ok)
         IN  /\ m_previous_time' = r.previous_time
             /\ clockRet' = r.ret
             /\ clockOk' = ok
             /\ ref' = IF ok THEN now ELSE ref
             /\ sumDelta' = IF ok THEN sumDelta + r.ret ELSE sumDelta
    /\ clockOp' = "delta"
    /\ clockAt' = now
    /\ refBefore' = ref
    /\ splitsSeen' = splits
    /\ splits' = 0
    /\ UNCHANGED <<now, constructedAt>>
    /\ UNCHANGED gmVars

Split ==
    /\ splits < MaxSplits
    /\ \E ok \in BOOLEAN :
         LET r == Clock_split(m_previous_time, now, ok)
         IN  /\ m_previous_time' = r.previous_time
             /\ clockRet' = r.ret
             /\ clockOk' = ok
    /\ clockOp' = "split"
    /\ clockAt' = now
    /\ refBefore' = ref
    /\ splits' = splits + 1
    /\ UNCHANGED <<now, ref, constructedAt, sumDelta, splitsSeen>>
    /\ UNCHANGED gmVars

ClockNext == Tick \/ Delta \/ Split

ClockSpec == ClockInit /\ [][ClockNext]_vars

\* ============================================================== properties
\* The startup order the specification fixes: diagnostic sink, input,
\* entity-component, persistence.
Order == <<"LM", "IM", "EM", "SEM">>

\* The subsystems on which the last operation called fn, in call order.
SubCalls(fn) ==
    LET sel == SelectSeq(calls, LAMBDA e : e.obj \in Subsys /\ e.fn = fn)
    IN  [i \in 1..Len(sel) |-> sel[i].obj]

\* The last operation was a startUp in which subsystem k was the first to fail.
FailedAt(k) ==
    /\ lastOp = "startUp"
    /\ lastIn.mgr
    /\ \A i \in 1..(k-1) : lastIn[Order[i]]
    /\ ~lastIn[Order[k]]

\* The scene calls of the last operation, in call order.
SceneCalls ==
    SelectSeq(calls, LAMBDA e : e.obj = "SEM" /\ e.fn \in {"loadScene", "saveScene"})

HeartbeatWritten ==
    \E i \in 1..Len(calls) : calls[i].fn = "writeLog" /\ calls[i].arg = "step count"

\* C1: when subsystem k (1..4) fails in startUp, exactly the subsystems 1..k-1
\* are shut down, k-1 first and 1 last, startUp was invoked on 1..k and on no
\* later subsystem, and startUp returns -1.
C1_RollbackOnFailure ==
    \A k \in 1..4 :
        FailedAt(k) =>
            /\ SubCalls("shutDown") = [i \in 1..(k-1) |-> Order[k-i]]
            /\ SubCalls("startUp") = SubSeq(Order, 1, k)
            /\ \A i \in 1..(k-1) : ~sub[Order[i]]
            /\ lastRet = -1

C1_Witness ==
    /\ FailedAt(4)
    /\ Len(SubCalls("shutDown")) = 3

\* C2: whenever startUp returns -1, everything it put into the started state,
\* the GameManager's own Manager status included, is stopped again on return.
C2_AllOrNothing ==
    (lastOp = "startUp" /\ lastRet = -1) =>
        /\ lastIn.mgr => ~m_is_started
        /\ \A k \in 1..4 : FailedAt(k) => \A i \in 1..(k-1) : ~sub[Order[i]]

\* C3: after a startUp that returns 0 the step count is 0 and the game is not
\* over, whatever the two were before the call.
C3_StartUpResets ==
    (lastOp = "startUp" /\ lastRet = 0) =>
        (m_step_count = 0 /\ m_game_over = FALSE)

C3_Witness ==
    /\ lastOp = "startUp" /\ lastRet = 0
    /\ pre.step_count > 0 /\ pre.game_over
    /\ m_step_count = 0

\* C4: n updates right after a successful startUp, with no key press and no
\* other operation in between, leave the step count at n.
C4_StepCountIsN ==
    nUpdates >= 0 => m_step_count = nUpdates

C4_Witness ==
    /\ nUpdates = HEARTBEAT_PERIOD + 1
    /\ lastOp = "update"

\* C5: once update has seen the escape key, game over is set at the end of
\* that call and stays set through later updates and shutDowns until the next
\* successful startUp.
C5_TerminationSticks ==
    keyTerminated => m_game_over

C5_Witness ==
    /\ keyTerminated
    /\ lastOp = "shutDown"
    /\ m_game_over

\* C6: shutDown has set game over before it shuts down the first subsystem,
\* and it shuts them down in the order SEM, EM, IM, LM.
C6_ShutDownOrder ==
    lastOp = "shutDown" =>
        /\ SubCalls("shutDown") = <<"SEM", "EM", "IM", "LM">>
        /\ \A i \in 1..Len(calls) :
               (calls[i].obj \in Subsys /\ calls[i].fn = "shutDown")
                   => calls[i].over

C6_Witness ==
    /\ lastOp = "shutDown"
    /\ ~pre.game_over
    /\ Len(SubCalls("shutDown")) = 4

\* C7: startUp invokes the subsystems' startUp in the order LM, IM, EM, SEM,
\* each at most once, and one only after all earlier ones started.
C7_StartOrder ==
    lastOp = "startUp" =>
        LET su == SubCalls("startUp")
        IN  /\ su = SubSeq(Order, 1, Len(su))
            /\ Len(su) > 0 => lastIn.mgr
            /\ \A i \in 1..Len(su) : \A j \in 1..(i-1) : lastIn[Order[j]]

C7_Witness ==
    /\ lastOp = "startUp"
    /\ SubCalls("startUp") = Order

\* C8: update writes the heartbeat record exactly when the step count after
\* its increment is a multiple of 100.
C8_HeartbeatEvery100 ==
    lastOp = "update" =>
        (HeartbeatWritten <=> (m_step_count % 100 = 0))

C8_Witness ==
    /\ lastOp = "update"
    /\ m_step_count = 2 * HEARTBEAT_PERIOD
    /\ HeartbeatWritten

\* C9: shutDown on a GameManager whose startUp was never called completes and
\* leaves game over set.
C9_ShutDownWithoutStartUp ==
    (lastOp = "shutDown" /\ ~startUpCalled) =>
        /\ m_game_over
        /\ lastRet = 0
        /\ ~m_is_started
        /\ \A s \in Subsys : ~sub[s]

C9_Witness ==
    /\ lastOp = "shutDown"
    /\ ~startUpCalled
    /\ ~pre.game_over

\* C10: a startUp that gets to the scene loads once; it saves, once and to
\* the same path, and loads a second time exactly when the first load failed;
\* no startUp makes a third load or a second save.
C10_SceneRecovery ==
    lastOp = "startUp" =>
        /\ lastRet = 0 =>
             [i \in 1..Len(SceneCalls) |-> SceneCalls[i].fn] =
                 IF lastIn.load1
                 THEN <<"loadScene">>
                 ELSE <<"loadScene", "saveScene", "loadScene">>
        /\ lastRet # 0 => SceneCalls = <<>>
        /\ \A i \in 1..Len(SceneCalls) : SceneCalls[i].arg = ScenePath

C10_Witness ==
    /\ lastOp = "startUp" /\ lastRet = 0
    /\ ~lastIn.load1 /\ ~lastIn.save /\ ~lastIn.load2
    /\ Len(SceneCalls) = 3

\* All four subsystems started in the last operation, a startUp.
AllFourStarted ==
    /\ lastOp = "startUp"
    /\ lastIn.mgr
    /\ \A i \in 1..4 : lastIn[Order[i]]

\* C11: once all four subsystems have started, startUp returns 0 and leaves
\* them started whatever registerSystem, the first loadScene, saveScene and
\* the retried loadScene return; none of them causes a rollback.
C11_OptionalStepsNotFatal ==
    AllFourStarted =>
        /\ lastRet = 0
        /\ \A s \in Subsys : sub[s]
        /\ m_is_started
        /\ SubCalls("shutDown") = <<>>

C11_Witness ==
    /\ AllFourStarted
    /\ ~lastIn.reg /\ ~lastIn.load1 /\ ~lastIn.save /\ ~lastIn.load2
    /\ lastRet = 0

\* C12: running (not game over) is false on construction and goes from false
\* to true only in a startUp that returns 0; construction, a failed startUp,
\* update and shutDown never make it true.
C12_RunningOnlyAfterStartUp ==
    /\ lastOp = "ctor" => m_game_over
    /\ (lastOp \in {"update", "shutDown"} \/ (lastOp = "startUp" /\ lastRet # 0))
           => (pre.game_over => m_game_over)

\* C15: update adds exactly 1 to the step count, a startUp that returns 0
\* sets it to 0, and a failed startUp, shutDown and setGameOver leave it as
\* it was.
C15_StepCountChanges ==
    /\ lastOp = "update" => m_step_count = pre.step_count + 1
    /\ (lastOp = "startUp" /\ lastRet = 0) => m_step_count = 0
    /\ (lastOp \in {"shutDown", "setGameOver"} \/ (lastOp = "startUp" /\ lastRet # 0))
           => m_step_count = pre.step_count

C15_Witness ==
    /\ lastOp = "startUp" /\ lastRet # 0
    /\ ~lastIn.EM
    /\ m_step_count > 0

\* The calls update is to make, in order, for the step count it reached, the
\* key state it saw and the frame time it was given.
UpdateCallsExpected ==
    (IF m_step_count % 100 = 0
        THEN << <<"LM", "writeLog", "step count">> >> ELSE << >>)
    \o << <<"IM", "isKeyJustPressed", "GLFW_KEY_ESCAPE">> >>
    \o (IF lastIn.key
        THEN << <<"LM", "writeLog", "game over set">>,
                <<"LM", "writeLog", "escape pressed">> >> ELSE << >>)
    \o << <<"EM", "updateSystems", lastIn.dt>> >>

\* C16: update increments the step count, then checks the heartbeat, then
\* polls the escape key, then forwards dt to EM.updateSystems exactly once,
\* also in the call that sees the key; that call ends with game over set, so
\* a driver looping while the game is not over makes no further update.
C16_UpdateOrder ==
    lastOp = "update" =>
        /\ m_step_count = pre.step_count + 1
        /\ [i \in 1..Len(calls) |-> <<calls[i].obj, calls[i].fn, calls[i].arg>>]
               = UpdateCallsExpected
        /\ lastIn.key => (m_game_over /\ calls[Len(calls)].over)

C16_Witness ==
    /\ lastOp = "update"
    /\ lastIn.key
    /\ ~pre.game_over
    /\ lastIn.dt = 16
    /\ calls[Len(calls)].fn = "updateSystems"

\* C17: a shutDown right after a shutDown changes nothing: game over stays
\* set, the step count stays, the GameManager and the four subsystems stay
\* stopped, and the call completes.
C17_ShutDownIdempotent ==
    (lastOp = "shutDown" /\ afterShutDown) =>
        /\ noChange
        /\ m_game_over
        /\ m_step_count = pre.step_count
        /\ ~m_is_started
        /\ \A s \in Subsys : ~sub[s]
        /\ lastRet = 0

C17_Witness ==
    /\ lastOp = "shutDown" /\ afterShutDown
    /\ startUpCalled
    /\ m_step_count > 0

\* C18: in a run startUp, then (after a successful startUp only) updates and
\* one shutDown, every writeLog call is made while the LogManager is started:
\* after its startUp succeeded and before its shutDown.
C18_LogOnlyWhileSinkStarted ==
    runShape # "off" =>
        \A i \in 1..Len(calls) : calls[i].fn = "writeLog" => calls[i].sink

C18_Witness ==
    /\ runShape = "failed"
    /\ ~lastIn.IM
    /\ \E i \in 1..Len(calls) :
         /\ calls[i].fn = "writeLog"
         /\ calls[i].arg = "failed to start InputManager"
         /\ calls[i].sink
    /\ ~sub["LM"]

\* C13: split() never moves the reference point: the stored time is always
\* the reading at construction or at the last successful delta(), every
\* split() measures from it, and a delta() after any number of split() calls
\* returns the time elapsed since that same point.
C13_SplitKeepsReference ==
    /\ m_previous_time = ref
    /\ (clockOp = "split" /\ clockOk) => clockRet = clockAt - ref
    /\ clockOp = "split" => ref = refBefore
    /\ (clockOp = "delta" /\ clockOk) => clockRet = clockAt - refBefore

C13_Witness ==
    /\ clockOp = "delta" /\ clockOk
    /\ splitsSeen = 2
    /\ clockRet = 3
    /\ refBefore > constructedAt

\* C14: a successful delta() returns the time elapsed since the previous
\* delta() (or construction), never a negative value, and makes the current
\* time the reference point; the results of the successful delta() calls add
\* up to the time from construction to the last of them.
C14_DeltaMeasuresAndResets ==
    /\ (clockOp = "delta" /\ clockOk) =>
           /\ clockRet >= 0
           /\ clockRet = clockAt - refBefore
           /\ m_previous_time = clockAt
    /\ sumDelta = m_previous_time - constructedAt

C14_Witness ==
    /\ clockOp = "delta" /\ clockOk
    /\ clockRet = 2
    /\ sumDelta = 5
    /\ constructedAt = 1

====
